---- MODULE Spec2Model ----
(***************************************************************************)
(* Office-Portal: the Apps Script backend (read-through cache guarded by   *)
(* the script lock, write handlers that invalidate the cache) and the       *)
(* React client (sync coordinator withSyncStatus, optimistic handlers of    *)
(* the views).                                                              *)
(*                                                                          *)
(*   Spec        the server: concurrent doGet / doPost executions           *)
(*   ClientSpec  one client session: one view, its displayed collection,    *)
(*               the sync coordinator and the backing store it talks to     *)
(*   SyncSpec    withSyncStatus alone, its actions settling in any order    *)
(*   FairSyncSpec  SyncSpec, the timeout firing and the actions settling     *)
(*   RaceSpec    a loaded view, status changes issued in quick succession   *)
(*   AccountsSpec  one session in the Accounts view (save with a file)      *)
(*   TableSpec   one read of a tabular sheet: doGet's payload, parseRows    *)
(***************************************************************************)
EXTENDS Integers, Sequences, FiniteSets, TLC

(* ------------------------------ bounds --------------------------------- *)
\* concurrent server executions (each slot serves one request)
NReq == 3
\* row ids a request may name (ids 1..MaxId)
MaxId == 2
\* rows a sheet may hold before add/create are refused
MaxRows == MaxId
\* handler invocations of one client session
MaxOps == 2
\* status changes issued in quick succession (the handlers of RaceSpec)
MaxRace == 3
\* withSyncStatus calls of the coordinator taken alone
MaxRuns == 3
\* columns of a tabular sheet that are looked at, and its data rows
Width == 3
MaxTableRows == 2

VARIABLES
    \* ---- server ----
    sheet,       \* sheet name -> its rows, the header row first
    ver,         \* sheet name -> number of changes made to the sheet (history)
    cache,       \* sheet name -> <<>> (no entry) or <<JSON text>>
    lock,        \* 0, or the execution holding the script lock
    req,         \* execution -> its position and locals
    lastOp,      \* sheet name -> last operation on its cache key (history)
    invalidated, \* sheet name -> sheet version covered by the last clearCache of a successful write (history)
    win          \* sheet name -> the current contention window of the key (history)

serverVars == <<sheet, ver, cache, lock, req, lastOp, invalidated, win>>

VARIABLES
    \* ---- client ----
    dashboard,   \* "lazy" (a view's data is loaded when first shown) or "eager" (fetchAllData)
    syncState,   \* [pending, status, message] of the Dashboard
    timer,       \* the 4-second timeout of syncTimeoutRef is armed
    records,     \* the displayed collection of the view
    load,        \* the load of the view's collection: isLoading, error, fetchedViews, the fetch under way
    backend,     \* the collection as the backing store holds it
    ops,         \* handler invocation -> its position and locals
    lastAuth,    \* the last collection a fetch delivered (history)
    trace        \* the sync states set by withSyncStatus, in order (history)

clientVars == <<dashboard, syncState, timer, records, load, backend, ops, lastAuth, trace>>

VARIABLES
    \* ---- one read of a tabular sheet, end to end ----
    tab          \* the sheet read, the response text on the wire, the records the client built

VARIABLES
    \* ---- the save form of the Accounts view ----
    form         \* formState (the fields that are validated) and formErrors

vars == <<serverVars, clientVars, tab, form>>

(* ------------------------- server: data model -------------------------- *)
CSHub == "Customer Service Hub"
Accounts == "Accounts"
\* SHEET_NAMES: the legacy ticket sheet and one sheet of the modular actions
SheetNames == {CSHub, Accounts}

Ids == 1..MaxId
StrCell(s) == [t |-> "string", v |-> s]
DateCell(d) == [t |-> "date", v |-> d]
\* cell values a request may write: a text and a date (getValues returns Date objects)
Vals == {StrCell("New"), DateCell("2024-01-01")}
BlankRow == <<0, StrCell("")>>

\* header row that getSheet gives a sheet (the id column and one data column)
Headers(name) == IF name = CSHub THEN <<"TicketID", "Status">> ELSE <<"AccountID", "Status">>

\* sheet.getDataRange().getValues() minus the header row: data.shift()
DataRows(sh) == Tail(sh)

\* JSON.stringify of one cell value: a Date becomes its ISO string
JsonCell(c) == IF c.t = "date" THEN StrCell(c.v \o "T00:00:00.000Z") ELSE c
JsonRow(row) == [i \in 1..Len(row) |-> IF i = 1 THEN row[i] ELSE JsonCell(row[i])]

\* the fetchFunction doGet passes to getDataWithCache
FetchFunction(name, sh) ==
    LET data == DataRows(sh) IN
    IF name = CSHub
    THEN [form |-> "objects", headers |-> <<>>,
          rows |-> [i \in 1..Len(data) |-> [TicketID |-> data[i][1], Status |-> data[i][2]]]]
    ELSE [form |-> "table", headers |-> Head(sh), rows |-> data]

\* JSON.stringify(data): the text, written as the value it denotes
JsonStringify(data) ==
    [json |-> [data EXCEPT !.rows =
        [i \in 1..Len(data.rows) |->
            IF data.form = "objects"
            THEN [data.rows[i] EXCEPT !.Status = JsonCell(data.rows[i].Status)]
            ELSE JsonRow(data.rows[i])]]]
\* JSON.parse(text)
JsonParse(text) == text.json

\* findRowById / findRowByHeaderValue: 1-based sheet row of the first match, 0 for null
RECURSIVE FindFrom(_, _, _)
FindFrom(sh, id, i) ==
    IF i > Len(sh) THEN 0
    ELSE IF sh[i][1] = id THEN i ELSE FindFrom(sh, id, i + 1)
FirstDataRow(sh, id) == IF Len(sh) >= 2 THEN 2 ELSE 0
FindRowById(sh, id) == FindFrom(sh, id, 2)

\* sheet.appendRow(newRow)
AppendRow(sh, row) == Append(sh, row)
\* sheet.deleteRow(rowIndex)
DeleteRow(sh, idx) == [i \in 1..(Len(sh) - 1) |-> IF i < idx THEN sh[i] ELSE sh[i + 1]]
\* sheet.getRange(rowIndex, 1, 1, n).setValues([row]); a row below the data grows the sheet
SetValues(sh, idx, row) ==
    IF idx <= Len(sh) THEN [sh EXCEPT ![idx] = row]
    ELSE [i \in 1..idx |-> IF i <= Len(sh) THEN sh[i] ELSE IF i = idx THEN row ELSE BlankRow]

UsedIds(sh) == {sh[i][1] : i \in 2..Len(sh)}

\* cache.get(sheetName): <<>> for null
NeverHit(c, name) == <<>>
CacheGet(c, name) == c[name]
\* cache.get(sheetName) of the double-check after waitLock
NoDoubleCheck(c, name) == <<>>
CachedAfterLock(c, name) == c[name]
\* cache.put(sheetName, text, CACHE_EXPIRATION_SECONDS)
CachePut(c, name, entry) == [c EXCEPT ![name] = <<entry>>]
\* clearCache(sheetName): cache.remove
KeepEntry(c, name) == c
ClearCache(c, name) == [c EXCEPT ![name] = <<>>]

(* --------------------------- server: state ----------------------------- *)
Req == 1..NReq

IdleReq ==
    [pc |-> "idle", kind |-> "none", act |-> "none", key |-> CSHub, id |-> 0,
     val |-> StrCell(""), row |-> 0, status |-> "none", body |-> <<>>,
     path |-> "none", data |-> <<>>, dver |-> 0, failed |-> FALSE,
     afterClear |-> FALSE, stillClear |-> FALSE, clearAt |-> 0, invAtStart |-> 0,
     wrote |-> FALSE, threw |-> "none"]

FreshWindow(clean) == [clean |-> clean, failed |-> FALSE, fetches |-> 0, results |-> {}]

\* executions inside getDataWithCache for the key, past the first cache check
Populating(name) ==
    {r \in Req : req[r].kind = "read" /\ req[r].key = name
                  /\ req[r].pc \in {"waitLock", "check2", "fetch", "put", "release"}}

InitSheet(name) == <<Headers(name), <<1, StrCell("New")>>>>

ServerInit ==
    /\ sheet = [n \in SheetNames |-> InitSheet(n)]
    /\ ver = [n \in SheetNames |-> 0]
    /\ cache = [n \in SheetNames |-> <<>>]
    /\ lock = 0
    /\ req = [r \in Req |-> IdleReq]
    /\ lastOp = [n \in SheetNames |-> [op |-> "none", at |-> 0]]
    /\ invalidated = [n \in SheetNames |-> 0]
    /\ win = [n \in SheetNames |-> FreshWindow(TRUE)]

\* executions are taken in order of arrival
CanStart(r) == req[r].pc = "idle" /\ \A q \in Req : q < r => req[q].pc # "idle"

\* the response of a finished read: JSON.stringify of the payload
Respond(r, rec, status, body) ==
    [rec EXCEPT !.pc = "done", !.status = status, !.body = body,
                !.id = 0, !.val = StrCell(""), !.row = 0, !.data = <<>>]

\* a read finished with a payload joins the results of the key's window
NoteResult(name, body) == [win EXCEPT ![name].results = @ \cup {body}]

(* ---------------------- server: doGet, a sheet read -------------------- *)
\* doGet routes to getDataWithCache; its first cache check (fast path)
GetStart(r, name) ==
    /\ CanStart(r)
    /\ LET hit == CacheGet(cache, name)
           rec == [req[r] EXCEPT !.kind = "read", !.key = name,
                                 !.afterClear = (lastOp[name].op = "remove"),
                                 !.clearAt = lastOp[name].at,
                                 !.invAtStart = invalidated[name]]
       IN IF hit # <<>>
          THEN LET body == JsonStringify(JsonParse(hit[1].text)) IN
               /\ req' = [req EXCEPT ![r] =
                            Respond(r, [rec EXCEPT !.path = "fast", !.dver = hit[1].ver],
                                    "success", <<body>>)]
               /\ win' = NoteResult(name, body)
          ELSE /\ req' = [req EXCEPT ![r] = [rec EXCEPT !.pc = "waitLock"]]
               /\ win' = win
    /\ UNCHANGED <<sheet, ver, cache, lock, lastOp, invalidated>>
    /\ UNCHANGED clientVars
    /\ UNCHANGED <<tab, form>>

\* the script lock can be given to a waiting execution: no execution holds it
LockIgnored(l) == TRUE
LockFree(l) == l = 0

\* lock.waitLock(30000) returns with the script lock
WaitLock(r) ==
    /\ req[r].pc = "waitLock"
    /\ LockFree(lock)
    /\ lock' = r
    /\ req' = [req EXCEPT ![r].pc = "check2"]
    /\ UNCHANGED <<sheet, ver, cache, lastOp, invalidated, win>>
    /\ UNCHANGED clientVars
    /\ UNCHANGED <<tab, form>>

\* the lock when waitLock threw: waitLock stands before the try block, so the
\* finally block with releaseLock does not run
ReleasedOnTimeout(l) == 0
LockAfterTimeout(l) == l

\* lock.waitLock(30000) throws: the lock stayed taken for 30 seconds; doGet's catch answers
LockTimeout(r) ==
    /\ req[r].pc = "waitLock"
    /\ lock # 0
    /\ req' = [req EXCEPT ![r] = Respond(r, req[r], "error", <<>>)]
    /\ lock' = LockAfterTimeout(lock)
    /\ UNCHANGED <<sheet, ver, cache, lastOp, invalidated, win>>
    /\ UNCHANGED clientVars
    /\ UNCHANGED <<tab, form>>

\* the double-check under the lock
Check2(r) ==
    /\ req[r].pc = "check2"
    /\ LET hit == CachedAfterLock(cache, req[r].key)
           rec == [req[r] EXCEPT !.stillClear = (lastOp[req[r].key].op = "remove")]
       IN IF hit # <<>>
          THEN req' = [req EXCEPT ![r] =
                         [rec EXCEPT !.pc = "release", !.path = "afterLock",
                                     !.dver = hit[1].ver,
                                     !.body = <<JsonStringify(JsonParse(hit[1].text))>>]]
          ELSE req' = [req EXCEPT ![r] = [rec EXCEPT !.pc = "fetch", !.path = "populate"]]
    /\ UNCHANGED <<sheet, ver, cache, lock, lastOp, invalidated, win>>
    /\ UNCHANGED clientVars
    /\ UNCHANGED <<tab, form>>

\* the cache when fetchFunction threw: the try block is left before cache.put
ErrorEntryCached(c, name) == [c EXCEPT ![name] = <<[text |-> [json |-> <<>>], ver |-> 0]>>]
CacheAfterThrow(c, name) == c

\* fetchFunction() reads the sheet, or throws
Fetch(r) ==
    /\ req[r].pc = "fetch"
    /\ LET name == req[r].key IN
       \/ /\ req' = [req EXCEPT ![r].pc = "put",
                                  ![r].data = <<FetchFunction(name, sheet[name])>>,
                                  ![r].dver = ver[name]]
          /\ win' = [win EXCEPT ![name].fetches = @ + 1]
          /\ cache' = cache
       \/ /\ req' = [req EXCEPT ![r].pc = "release", ![r].failed = TRUE, ![r].threw = "fetch"]
          /\ win' = [win EXCEPT ![name].fetches = @ + 1, ![name].failed = TRUE]
          /\ cache' = CacheAfterThrow(cache, name)
    /\ UNCHANGED <<sheet, ver, lock, lastOp, invalidated>>
    /\ UNCHANGED clientVars
    /\ UNCHANGED <<tab, form>>

\* cache.put(sheetName, JSON.stringify(data), 300), or it throws (value too large)
Put(r) ==
    /\ req[r].pc = "put"
    /\ LET name == req[r].key IN
       \/ /\ cache' = CachePut(cache, name,
                                 [text |-> JsonStringify(req[r].data[1]), ver |-> req[r].dver])
          /\ lastOp' = [lastOp EXCEPT ![name] = [op |-> "put", at |-> ver[name]]]
          /\ req' = [req EXCEPT ![r].pc = "release",
                                  ![r].body = <<JsonStringify(req[r].data[1])>>]
          /\ win' = win
       \/ /\ req' = [req EXCEPT ![r].pc = "release", ![r].failed = TRUE, ![r].threw = "put"]
          /\ win' = [win EXCEPT ![name].failed = TRUE]
          /\ UNCHANGED <<cache, lastOp>>
    /\ UNCHANGED <<sheet, ver, lock, invalidated>>
    /\ UNCHANGED clientVars
    /\ UNCHANGED <<tab, form>>

\* lock.releaseLock() in the finally block: it runs whether or not the try block threw
ReleaseOnReturnOnly(l, threw) == IF threw THEN l ELSE 0
ReleaseLock(l, threw) == 0

\* finally { lock.releaseLock() }, then doGet answers (or its catch does)
Release(r) ==
    /\ req[r].pc = "release"
    /\ lock' = ReleaseLock(lock, req[r].failed)
    /\ IF req[r].failed
       THEN /\ req' = [req EXCEPT ![r] = Respond(r, req[r], "error", <<>>)]
            /\ win' = win
       ELSE /\ req' = [req EXCEPT ![r] = Respond(r, req[r], "success", req[r].body)]
            /\ win' = NoteResult(req[r].key, req[r].body[1])
    /\ UNCHANGED <<sheet, ver, cache, lastOp, invalidated>>
    /\ UNCHANGED clientVars
    /\ UNCHANGED <<tab, form>>

\* the entry's TTL (CACHE_EXPIRATION_SECONDS) runs out
Expire(name) ==
    /\ cache[name] # <<>>
    /\ cache' = [cache EXCEPT ![name] = <<>>]
    /\ lastOp' = [lastOp EXCEPT ![name] = [op |-> "expire", at |-> ver[name]]]
    /\ win' = [win EXCEPT ![name] = FreshWindow(Populating(name) = {})]
    /\ UNCHANGED <<sheet, ver, lock, req, invalidated>>
    /\ UNCHANGED clientVars
    /\ UNCHANGED <<tab, form>>

(* ------------------- server: doPost and the legacy delete -------------- *)
\* sheetToInvalidate of a routed POST
SheetOf(act) == IF act \in {"addAccount", "updateAccount", "deleteAccount"} THEN Accounts ELSE CSHub

\* the handler changed the sheet: the sheet's change count (history) moves on
Changed(name, sh) ==
    /\ sheet' = [sheet EXCEPT ![name] = sh]
    /\ ver' = [ver EXCEPT ![name] = @ + 1]

\* doPost with an unknown action, or neither action nor formType create/update: throws
PostInvalid(r) ==
    /\ CanStart(r)
    /\ req' = [req EXCEPT ![r] =
                 Respond(r, [req[r] EXCEPT !.kind = "post", !.act = "bad"], "error", <<>>)]
    /\ UNCHANGED <<sheet, ver, cache, lock, lastOp, invalidated, win>>
    /\ UNCHANGED clientVars
    /\ UNCHANGED <<tab, form>>

\* handleAddAccount (genericAdd alike): a new id, sheet.appendRow
PostAdd(r, id, val) ==
    /\ CanStart(r)
    /\ Len(DataRows(sheet[Accounts])) < MaxRows
    /\ id \notin UsedIds(sheet[Accounts])
    /\ Changed(Accounts, AppendRow(sheet[Accounts], <<id, val>>))
    /\ req' = [req EXCEPT ![r] =
                 [req[r] EXCEPT !.kind = "post", !.act = "addAccount", !.key = Accounts,
                                !.id = id, !.val = val, !.pc = "clear",
                                !.status = "success", !.wrote = TRUE]]
    /\ UNCHANGED <<cache, lock, lastOp, invalidated, win>>
    /\ UNCHANGED clientVars
    /\ UNCHANGED <<tab, form>>

\* createRecord: sheet.appendRow, the confirmation e-mail is still to be sent
PostCreate(r, id, val) ==
    /\ CanStart(r)
    /\ Len(DataRows(sheet[CSHub])) < MaxRows
    /\ id \notin UsedIds(sheet[CSHub])
    /\ Changed(CSHub, AppendRow(sheet[CSHub], <<id, val>>))
    /\ req' = [req EXCEPT ![r] =
                 [req[r] EXCEPT !.kind = "post", !.act = "create", !.key = CSHub,
                                !.id = id, !.val = val, !.pc = "email", !.wrote = TRUE]]
    /\ UNCHANGED <<cache, lock, lastOp, invalidated, win>>
    /\ UNCHANGED clientVars
    /\ UNCHANGED <<tab, form>>

\* sendEmailConfirmation returns, or throws into doPost's catch
Email(r) ==
    /\ req[r].pc = "email"
    /\ \/ req' = [req EXCEPT ![r].pc = "clear", ![r].status = "success"]
       \/ req' = [req EXCEPT ![r] = Respond(r, req[r], "error", <<>>)]
    /\ UNCHANGED <<sheet, ver, cache, lock, lastOp, invalidated, win>>
    /\ UNCHANGED clientVars
    /\ UNCHANGED <<tab, form>>

\* updateRecord / handleUpdateAccount / handleDeleteAccount up to the row lookup:
\* a missing row throws
PostFind(r, act, id, val) ==
    /\ CanStart(r)
    /\ act \in {"update", "updateAccount", "deleteAccount"}
    /\ LET name == SheetOf(act)
           idx == FindRowById(sheet[name], id)
           rec == [req[r] EXCEPT !.kind = "post", !.act = act, !.key = name,
                                 !.id = id, !.val = val, !.row = idx]
       IN req' = [req EXCEPT ![r] =
                    IF idx = 0 THEN Respond(r, rec, "error", <<>>)
                    ELSE [rec EXCEPT !.pc = "write"]]
    /\ UNCHANGED <<sheet, ver, cache, lock, lastOp, invalidated, win>>
    /\ UNCHANGED clientVars
    /\ UNCHANGED <<tab, form>>

\* doGet action=delete: deleteRecord up to the row lookup; a missing row is an
\* error response that deleteRecord returns
GetDeleteFind(r, id) ==
    /\ CanStart(r)
    /\ LET idx == FindRowById(sheet[CSHub], id)
           rec == [req[r] EXCEPT !.kind = "getDelete", !.act = "delete", !.key = CSHub,
                                 !.id = id, !.row = idx]
       IN req' = [req EXCEPT ![r] =
                    IF idx = 0 THEN [rec EXCEPT !.pc = "clear", !.status = "error"]
                    ELSE [rec EXCEPT !.pc = "write"]]
    /\ UNCHANGED <<sheet, ver, cache, lock, lastOp, invalidated, win>>
    /\ UNCHANGED clientVars
    /\ UNCHANGED <<tab, form>>

\* the handler after a successful lookup: an update's files go to Drive
\* (uploadFilesToDrive, called only past the lookup), then the write at the row
\* index it looked up: setValues, or deleteRow (which throws when the row is no
\* longer there)
Write(r) ==
    /\ req[r].pc = "write"
    /\ LET name == req[r].key
           sh == sheet[name]
       IN IF req[r].act \in {"update", "updateAccount"}
          THEN /\ Changed(name, SetValues(sh, req[r].row, <<req[r].id, req[r].val>>))
               /\ req' = [req EXCEPT ![r].pc = "clear", ![r].status = "success",
                                       ![r].wrote = TRUE]
          ELSE IF req[r].row <= Len(sh)
          THEN /\ Changed(name, DeleteRow(sh, req[r].row))
               /\ req' = [req EXCEPT ![r].pc = "clear", ![r].status = "success",
                                       ![r].wrote = TRUE]
          ELSE /\ req' = [req EXCEPT ![r] = Respond(r, req[r], "error", <<>>)]
               /\ UNCHANGED <<sheet, ver>>
    /\ UNCHANGED <<cache, lock, lastOp, invalidated, win>>
    /\ UNCHANGED clientVars
    /\ UNCHANGED <<tab, form>>

\* the cache key loses its entry: the key's contention window starts anew
InvalidateAll(name) == cache' = [n \in SheetNames |-> <<>>] /\ lastOp' = [lastOp EXCEPT ![name] = [op |-> "remove", at |-> ver[name]]] /\ win' = [win EXCEPT ![name] = FreshWindow(Populating(name) = {})]
Invalidate(name) ==
    /\ cache' = ClearCache(cache, name)
    /\ lastOp' = [lastOp EXCEPT ![name] = [op |-> "remove", at |-> ver[name]]]
    /\ win' = [win EXCEPT ![name] = FreshWindow(Populating(name) = {})]

\* doPost: if (response.status === 'success' && sheetToInvalidate) clearCache(...)
PostInvalidate(r) ==
    /\ req[r].pc = "clear"
    /\ req[r].kind = "post"
    /\ IF req[r].status = "success"
       THEN /\ Invalidate(req[r].key)
            /\ invalidated' = [invalidated EXCEPT ![req[r].key] = ver[req[r].key]]
       ELSE UNCHANGED <<cache, lastOp, win, invalidated>>
    /\ req' = [req EXCEPT ![r] = Respond(r, req[r], req[r].status, <<>>)]
    /\ UNCHANGED <<sheet, ver, lock>>
    /\ UNCHANGED clientVars
    /\ UNCHANGED <<tab, form>>

\* doGet action=delete: clearCache(SHEET_NAMES.customerService); return response
DeleteInvalidate(r) ==
    /\ req[r].pc = "clear"
    /\ req[r].kind = "getDelete"
    /\ Invalidate(CSHub)
    /\ invalidated' = IF req[r].status = "success"
                      THEN [invalidated EXCEPT ![CSHub] = ver[CSHub]]
                      ELSE invalidated
    /\ req' = [req EXCEPT ![r] = Respond(r, req[r], req[r].status, <<>>)]
    /\ UNCHANGED <<sheet, ver, lock>>
    /\ UNCHANGED clientVars
    /\ UNCHANGED <<tab, form>>

ServerNext ==
    \/ \E r \in Req, n \in SheetNames : GetStart(r, n)
    \/ \E r \in Req : WaitLock(r)
    \/ \E r \in Req : LockTimeout(r)
    \/ \E r \in Req : Check2(r)
    \/ \E r \in Req : Fetch(r)
    \/ \E r \in Req : Put(r)
    \/ \E r \in Req : Release(r)
    \/ \E n \in SheetNames : Expire(n)
    \/ \E r \in Req : PostInvalid(r)
    \/ \E r \in Req, id \in Ids, v \in Vals : PostAdd(r, id, v)
    \/ \E r \in Req, id \in Ids, v \in Vals : PostCreate(r, id, v)
    \/ \E r \in Req : Email(r)
    \/ \E r \in Req, a \in {"update", "updateAccount"}, id \in Ids, v \in Vals :
          PostFind(r, a, id, v)
    \/ \E r \in Req, id \in Ids : PostFind(r, "deleteAccount", id, StrCell(""))
    \/ \E r \in Req, id \in Ids : GetDeleteFind(r, id)
    \/ \E r \in Req : Write(r)
    \/ \E r \in Req : PostInvalidate(r)
    \/ \E r \in Req : DeleteInvalidate(r)

(* --------------------------- client: data model ------------------------ *)
\* type Status of a ticket
Statuses == {"New", "In Progress", "Closed"}
Rec(i, st) == [id |-> i, Status |-> st]
\* the collection the backing store holds when the session starts
InitialCollection == <<Rec(1, "New"), Rec(2, "New")>>
\* ids the backing store may assign to created records
RecIds == 1..(Len(InitialCollection) + 1)

\* the handler invocations of the session, in the order in which they are issued
Op == DOMAIN ops
IdleOp ==
    [pc |-> "idle", kind |-> "none", id |-> 0, val |-> "", snapshot |-> <<>>,
     data |-> <<>>, outcome |-> "none", reason |-> [isError |-> TRUE, message |-> ""]]

\* rejection reasons of an action: an Error of the api layer, or a value that is no Error
Reasons == {[isError |-> TRUE, message |-> "An API error occurred."],
            [isError |-> FALSE, message |-> ""]}
FetchError == [isError |-> TRUE, message |-> "Failed to fetch"]

IdsOf(recs) == {recs[i].id : i \in 1..Len(recs)}
\* the displayed value of a record, "" when the collection has no such record
Lookup(recs, id) ==
    IF id \in IdsOf(recs)
    THEN (CHOOSE r \in {recs[i] : i \in 1..Len(recs)} : r.id = id).Status
    ELSE ""

\* `Saving ${n} change${n > 1 ? 's' : ''}...`
AlwaysPlural(n) == "Saving " \o ToString(n) \o " changes..."
SavingMessage(n) == "Saving " \o ToString(n) \o " change" \o (IF n > 1 THEN "s" ELSE "") \o "..."

\* withSyncStatus: the updater of the first setSyncState
SyncStart(prev) ==
    [pending |-> prev.pending + 1, status |-> "syncing",
     message |-> SavingMessage(prev.pending + 1)]

\* withSyncStatus: the updater after `await action()` returned
SyncResolve(prev) ==
    LET newPending == prev.pending - 1 IN
    IF newPending = 0
    THEN [pending |-> 0, status |-> "success", message |-> "All changes saved."]
    ELSE [pending |-> newPending, status |-> "syncing", message |-> SavingMessage(newPending)]

\* err instanceof Error ? err.message : 'Update failed.'
MessageOfAny(reason) == reason.message
ErrorMessage(reason) == IF reason.isError THEN reason.message ELSE "Update failed."

\* withSyncStatus: the updater of the catch block
RejectKeepsPending(prev, reason) ==
    [pending |-> prev.pending, status |-> "error", message |-> ErrorMessage(reason)]
SyncReject(prev, reason) ==
    [pending |-> prev.pending - 1, status |-> "error", message |-> ErrorMessage(reason)]

\* the timeout callback: setSyncState(prev => ({ ...prev, status: 'idle', message: '' }))
SyncIdle(prev) == [prev EXCEPT !.status = "idle", !.message = ""]

\* the effect on [syncState.status]: its cleanup clears the timeout whenever the
\* status changes, and a terminal status arms a new one
NeverArmed(old, new, armed) == FALSE
EffectTimer(old, new, armed) ==
    IF new.status = old.status THEN armed ELSE new.status \in {"success", "error"}

\* setRecords(prev => prev.map(r => r.id === updated.id ? updated : r))
ApplyUpdate(recs, updated) ==
    [i \in 1..Len(recs) |-> IF recs[i].id = updated.id THEN updated ELSE recs[i]]
\* setRecords(prev => prev.filter(r => r.id !== id))
KeepsId(r, id) == r.id # id
ApplyDelete(recs, id) == SelectSeq(recs, LAMBDA r : KeepsId(r, id))

\* setRecords(originalRecords): the revert of the catch block
PartialUndo(cur, snapshot, id) ==
    IF id \in IdsOf(snapshot) /\ id \in IdsOf(cur)
    THEN ApplyUpdate(cur, Rec(id, Lookup(snapshot, id)))
    ELSE IF id \in IdsOf(snapshot) THEN snapshot ELSE cur
Revert(cur, snapshot, id) == snapshot

(* ----------------------------- client: state --------------------------- *)
IdleSync == [pending |-> 0, status |-> "idle", message |-> ""]

ClientInit ==
    /\ dashboard \in {"lazy", "eager"}
    /\ syncState = IdleSync
    /\ timer = FALSE
    /\ records = <<>>
    /\ load = [pc |-> "sent", loading |-> TRUE, error |-> FALSE, fetched |-> FALSE, data |-> <<>>,
             asked |-> FALSE]
    /\ backend = InitialCollection
    /\ ops = [o \in 1..MaxOps |-> IdleOp]
    /\ lastAuth = <<>>
    /\ trace = <<>>

\* the client part while only the server runs
ClientIdle ==
    /\ dashboard = "lazy"
    /\ syncState = IdleSync
    /\ timer = FALSE
    /\ records = <<>>
    /\ load = [pc |-> "none", loading |-> FALSE, error |-> FALSE, fetched |-> FALSE, data |-> <<>>,
             asked |-> FALSE]
    /\ backend = <<>>
    /\ ops = <<>>
    /\ lastAuth = <<>>
    /\ trace = <<>>

\* renderContent shows the view: not the spinner and not the error page
ViewShown ==
    /\ ~load.loading
    /\ dashboard = "lazy" => (load.fetched /\ ~load.error)

InFlight == {"sent", "mutOk", "mutErr", "refOk", "refErr"}
Optimistic == {"update", "delete"}

CanIssue(o) ==
    /\ ViewShown
    /\ ops[o].pc = "idle"
    /\ \A q \in Op : q < o => ops[q].pc # "idle"

Note(ev, st) ==
    Append(trace, [ev |-> ev, pending |-> st.pending, status |-> st.status,
                   message |-> st.message])

\* withSyncStatus up to `await action()`: clearTimeout, then the first setSyncState
Begin ==
    /\ syncState' = SyncStart(syncState)
    /\ timer' = FALSE

\* withSyncStatus after the action resolved
Resolved ==
    /\ syncState' = SyncResolve(syncState)
    /\ timer' = EffectTimer(syncState, SyncResolve(syncState), timer)

\* withSyncStatus after the action rejected (it re-throws to the handler)
Rejected(reason) ==
    /\ syncState' = SyncReject(syncState, reason)
    /\ timer' = EffectTimer(syncState, SyncReject(syncState, reason), timer)

(* ---------------------------- client: loading -------------------------- *)
\* the backing store answers the initial fetch of the collection, or the fetch fails
LoadRead ==
    /\ load.pc = "sent"
    /\ \/ load' = [load EXCEPT !.pc = "ok", !.data = backend]
       \/ load' = [load EXCEPT !.pc = "err"]
    /\ UNCHANGED <<dashboard, syncState, timer, records, backend, ops, lastAuth, trace>>
    /\ UNCHANGED serverVars
    /\ UNCHANGED <<tab, form>>

\* setRecords(await api.get...()); the view counts as fetched; loading ends
LoadOk ==
    /\ load.pc = "ok"
    /\ records' = load.data
    /\ lastAuth' = load.data
    /\ load' = [load EXCEPT !.pc = "none", !.loading = FALSE, !.fetched = TRUE, !.data = <<>>]
    /\ UNCHANGED <<dashboard, syncState, timer, backend, ops, trace>>
    /\ UNCHANGED serverVars
    /\ UNCHANGED <<tab, form>>

\* the fetch failed: setError, loading ends
LoadFailed ==
    /\ load.pc = "err"
    /\ load' = [load EXCEPT !.pc = "none", !.loading = FALSE, !.error = TRUE]
    /\ UNCHANGED <<dashboard, syncState, timer, records, backend, ops, lastAuth, trace>>
    /\ UNCHANGED serverVars
    /\ UNCHANGED <<tab, form>>

\* lazy Dashboard: the effect on [activeView, fetchedViews, isLoading] runs
\* fetchDataForView whenever the active view is neither fetched nor loading
LoadEffect ==
    /\ dashboard = "lazy"
    /\ load.pc = "none" /\ ~load.fetched /\ ~load.loading
    /\ load' = [load EXCEPT !.pc = "sent", !.loading = TRUE, !.error = FALSE, !.asked = FALSE]
    /\ UNCHANGED <<dashboard, syncState, timer, records, backend, ops, lastAuth, trace>>
    /\ UNCHANGED serverVars
    /\ UNCHANGED <<tab, form>>

\* lazy Dashboard, the error page of the view: the user presses 'Try Again', which
\* takes the view out of fetchedViews (asked: the request is noted, history)
TryAgain ==
    /\ dashboard = "lazy"
    /\ load.error /\ ~load.loading
    /\ ~load.asked
    /\ load' = [load EXCEPT !.fetched = FALSE, !.asked = TRUE]
    /\ UNCHANGED <<dashboard, syncState, timer, records, backend, ops, lastAuth, trace>>
    /\ UNCHANGED serverVars
    /\ UNCHANGED <<tab, form>>

(* ---------------------------- client: handlers ------------------------- *)
\* handleStatusChange / handleQuickUpdate / the update branch of handleSave:
\* snapshot, optimistic map, withSyncStatus(updateAction)
HandleUpdate(o, id, st) ==
    /\ CanIssue(o)
    /\ id \in IdsOf(records)
    /\ Lookup(records, id) # st
    /\ ops' = [ops EXCEPT ![o] = [IdleOp EXCEPT !.pc = "sent", !.kind = "update", !.id = id,
                                                !.val = st, !.snapshot = records]]
    /\ records' = ApplyUpdate(records, Rec(id, st))
    /\ Begin
    /\ UNCHANGED <<dashboard, load, backend, lastAuth, trace>>
    /\ UNCHANGED serverVars
    /\ UNCHANGED <<tab, form>>

\* handleConfirmDelete / handleDelete: snapshot, optimistic filter, withSyncStatus(deleteAction)
HandleDelete(o, id) ==
    /\ CanIssue(o)
    /\ id \in IdsOf(records)
    /\ ops' = [ops EXCEPT ![o] = [IdleOp EXCEPT !.pc = "sent", !.kind = "delete", !.id = id,
                                                !.snapshot = records]]
    /\ records' = ApplyDelete(records, id)
    /\ Begin
    /\ UNCHANGED <<dashboard, load, backend, lastAuth, trace>>
    /\ UNCHANGED serverVars
    /\ UNCHANGED <<tab, form>>

\* the create branch of handleSave: withSyncStatus(createAction), nothing optimistic
HandleCreate(o) ==
    /\ CanIssue(o)
    /\ ops' = [ops EXCEPT ![o] = [IdleOp EXCEPT !.pc = "sent", !.kind = "create", !.val = "New"]]
    /\ Begin
    /\ UNCHANGED <<dashboard, load, records, backend, lastAuth, trace>>
    /\ UNCHANGED serverVars
    /\ UNCHANGED <<tab, form>>

\* the backing store serves the mutation: it applies it, or answers an error
\* (a missing id is always an error), or the request fails on the way
ServerMutate(o) ==
    /\ ops[o].pc = "sent"
    /\ \/ /\ ops[o].kind = "update" /\ ops[o].id \in IdsOf(backend)
          /\ backend' = ApplyUpdate(backend, Rec(ops[o].id, ops[o].val))
          /\ ops' = [ops EXCEPT ![o].pc = "mutOk"]
       \/ /\ ops[o].kind = "delete" /\ ops[o].id \in IdsOf(backend)
          /\ backend' = ApplyDelete(backend, ops[o].id)
          /\ ops' = [ops EXCEPT ![o].pc = "mutOk"]
       \/ /\ ops[o].kind = "create"
          /\ \E id \in RecIds :
                /\ id \notin IdsOf(backend)
                /\ \A j \in RecIds : j < id => j \in IdsOf(backend)
                /\ backend' = Append(backend, Rec(id, ops[o].val))
          /\ ops' = [ops EXCEPT ![o].pc = "mutOk"]
       \/ /\ \E reason \in Reasons : ops' = [ops EXCEPT ![o].pc = "mutErr", ![o].reason = reason]
          /\ backend' = backend
    /\ UNCHANGED <<dashboard, syncState, timer, records, load, lastAuth, trace>>
    /\ UNCHANGED serverVars
    /\ UNCHANGED <<tab, form>>

\* the handler's catch: setRecords(originalRecords) where it had applied an edit
CatchRevertsAll(o) == Revert(records, ops[o].snapshot, ops[o].id)
Catch(o) ==
    IF ops[o].kind \in Optimistic
    THEN Revert(records, ops[o].snapshot, ops[o].id)
    ELSE records

Settle(o, outcome, reason) ==
    [ops EXCEPT ![o] = [IdleOp EXCEPT !.pc = "done", !.kind = ops[o].kind, !.id = ops[o].id,
                                       !.val = ops[o].val, !.outcome = outcome,
                                       !.reason = reason]]

\* the mutation rejected: withSyncStatus' catch, then the handler's catch
MutationFailed(o) ==
    /\ ops[o].pc = "mutErr"
    /\ Rejected(ops[o].reason)
    /\ records' = Catch(o)
    /\ ops' = Settle(o, "rejected", ops[o].reason)
    /\ UNCHANGED <<dashboard, load, backend, lastAuth, trace>>
    /\ UNCHANGED serverVars
    /\ UNCHANGED <<tab, form>>

\* the mutation's response is a success, the action goes on to `await refetchData()`:
\* the backing store answers the refetch with the collection, or the refetch fails
RefetchRead(o) ==
    /\ ops[o].pc = "mutOk"
    /\ \/ ops' = [ops EXCEPT ![o].pc = "refOk", ![o].data = backend]
       \/ ops' = [ops EXCEPT ![o].pc = "refErr"]
    /\ UNCHANGED <<dashboard, syncState, timer, records, load, backend, lastAuth, trace>>
    /\ UNCHANGED serverVars
    /\ UNCHANGED <<tab, form>>

\* refetchData delivers: setRecords(await api.get...()), the action resolves
RefetchOk(o) ==
    /\ ops[o].pc = "refOk"
    /\ records' = ops[o].data
    /\ lastAuth' = ops[o].data
    /\ Resolved
    /\ ops' = Settle(o, "resolved", IdleOp.reason)
    /\ UNCHANGED <<dashboard, load, backend, trace>>
    /\ UNCHANGED serverVars
    /\ UNCHANGED <<tab, form>>

\* the refetch failed. Lazy Dashboard: refetchData throws, the action rejects and
\* the handler's catch runs. Eager Dashboard: refetchData catches, sets the error
\* text and returns, so the action resolves.
RefetchFailed(o) ==
    /\ ops[o].pc = "refErr"
    /\ IF dashboard = "lazy"
       THEN /\ Rejected(FetchError)
            /\ records' = Catch(o)
            /\ ops' = Settle(o, "rejected", FetchError)
            /\ load' = load
       ELSE /\ Resolved
            /\ records' = records
            /\ ops' = Settle(o, "resolved", IdleOp.reason)
            /\ load' = [load EXCEPT !.error = TRUE]
    /\ UNCHANGED <<dashboard, backend, lastAuth, trace>>
    /\ UNCHANGED serverVars
    /\ UNCHANGED <<tab, form>>

\* the 4-second timeout fires
TimerFire ==
    /\ timer
    /\ syncState' = SyncIdle(syncState)
    /\ timer' = FALSE
    /\ UNCHANGED <<dashboard, records, load, backend, ops, lastAuth, trace>>
    /\ UNCHANGED serverVars
    /\ UNCHANGED <<tab, form>>

\* one view already loaded, in which the user changes statuses in quick succession
RaceInit ==
    /\ dashboard \in {"lazy", "eager"}
    /\ syncState = IdleSync
    /\ timer = FALSE
    /\ records = InitialCollection
    /\ load = [pc |-> "none", loading |-> FALSE, error |-> FALSE, fetched |-> TRUE, data |-> <<>>,
             asked |-> FALSE]
    /\ backend = InitialCollection
    /\ ops = [o \in 1..MaxRace |-> IdleOp]
    /\ lastAuth = InitialCollection
    /\ trace = <<>>

RaceNext ==
    \/ \E o \in Op, id \in RecIds, st \in Statuses : HandleUpdate(o, id, st)
    \/ \E o \in Op : ServerMutate(o)
    \/ \E o \in Op : MutationFailed(o)
    \/ \E o \in Op : RefetchRead(o)
    \/ \E o \in Op : RefetchOk(o)
    \/ \E o \in Op : RefetchFailed(o)
    \/ TimerFire

ClientNext ==
    \/ LoadRead
    \/ LoadOk
    \/ LoadFailed
    \/ LoadEffect
    \/ TryAgain
    \/ \E o \in Op, id \in RecIds, st \in Statuses : HandleUpdate(o, id, st)
    \/ \E o \in Op, id \in RecIds : HandleDelete(o, id)
    \/ \E o \in Op : HandleCreate(o)
    \/ \E o \in Op : ServerMutate(o)
    \/ \E o \in Op : MutationFailed(o)
    \/ \E o \in Op : RefetchRead(o)
    \/ \E o \in Op : RefetchOk(o)
    \/ \E o \in Op : RefetchFailed(o)
    \/ TimerFire

(* --------------------- client: AccountsView.handleSave ----------------- *)
\* String.prototype.trim on a text given as a sequence of characters
RECURSIVE TrimStart(_)
TrimStart(s) == IF s # <<>> /\ Head(s) = " " THEN TrimStart(Tail(s)) ELSE s
RECURSIVE TrimEnd(_)
TrimEnd(s) == IF s # <<>> /\ s[Len(s)] = " " THEN TrimEnd(SubSeq(s, 1, Len(s) - 1)) ELSE s
Trim(s) == TrimEnd(TrimStart(s))

\* the validated fields of the form as the user may have filled them
Forms == [company : {<<>>, <<" ">>, <<"A">>}, amountDue : {-1, 0}]
\* emptyFormState, no errors shown
EmptyForm == [company |-> <<>>, amountDue |-> 0, errors |-> {}]

\* validateForm(formState): the fields with an error message
NoValidation(f) == {}
ValidateForm(f) ==
    (IF Trim(f.company) = <<>> THEN {"company"} ELSE {})
        \cup (IF f.amountDue < 0 THEN {"amountDue"} ELSE {})

\* handleSave of the Accounts view on a form with errors: setFormErrors, return
SaveInvalid(f) ==
    /\ ViewShown
    /\ ValidateForm(f) # {}
    /\ form' = [company |-> f.company, amountDue |-> f.amountDue, errors |-> ValidateForm(f)]
    /\ UNCHANGED <<dashboard, syncState, timer, records, load, backend, ops, lastAuth, trace>>
    /\ UNCHANGED serverVars
    /\ UNCHANGED tab

\* handleSave of the Accounts view on a form without errors, editing account id
\* (0: a new account), with a file chosen or not. With a file the handler stops
\* at `await fileToBase64(fileToUpload)`: `accounts` is the collection of the
\* render the handler belongs to (kept in snapshot), and the modal stays open
HandleSave(o, id, f, st, file) ==
    /\ CanIssue(o)
    /\ ValidateForm(f) = {}
    /\ form' = [company |-> f.company, amountDue |-> f.amountDue, errors |-> {}]
    /\ IF id = 0
       THEN /\ ops' = [ops EXCEPT ![o] = [IdleOp EXCEPT !.pc = "sent", !.kind = "create",
                                                        !.val = "New"]]
            /\ Begin
            /\ records' = records
       ELSE /\ id \in IdsOf(records)
            /\ Lookup(records, id) # st
            /\ IF file
               THEN /\ ops' = [ops EXCEPT ![o] =
                                [IdleOp EXCEPT !.pc = "encoding", !.kind = "update",
                                               !.id = id, !.val = st, !.snapshot = records]]
                    /\ UNCHANGED <<syncState, timer, records>>
               ELSE /\ ops' = [ops EXCEPT ![o] =
                                [IdleOp EXCEPT !.pc = "sent", !.kind = "update",
                                               !.id = id, !.val = st, !.snapshot = records]]
                    /\ records' = ApplyUpdate(records, Rec(id, st))
                    /\ Begin
    /\ UNCHANGED <<dashboard, load, backend, lastAuth, trace>>
    /\ UNCHANGED serverVars
    /\ UNCHANGED tab

\* the file is encoded, handleSave goes on: originalAccounts = [...accounts],
\* setAccounts(prev => prev.map(...)), withSyncStatus(updateAction)
SaveEncoded(o) ==
    /\ ops[o].pc = "encoding"
    /\ ops' = [ops EXCEPT ![o].pc = "sent"]
    /\ records' = ApplyUpdate(records, Rec(ops[o].id, ops[o].val))
    /\ Begin
    /\ UNCHANGED <<dashboard, load, backend, lastAuth, trace>>
    /\ UNCHANGED serverVars
    /\ UNCHANGED <<tab, form>>

\* the edit modal is not open on a save that is encoding its file: the table's
\* buttons can be pressed
ModalClosed == \A q \in Op : ops[q].pc # "encoding"

AccountsNext ==
    \/ LoadRead
    \/ LoadOk
    \/ LoadFailed
    \/ LoadEffect
    \/ TryAgain
    \/ ModalClosed /\ \E o \in Op, id \in RecIds, st \in Statuses : HandleUpdate(o, id, st)
    \/ ModalClosed /\ \E o \in Op, id \in RecIds : HandleDelete(o, id)
    \/ ModalClosed /\ \E f \in Forms : SaveInvalid(f)
    \/ ModalClosed /\ \E o \in Op, id \in {0} \cup RecIds, f \in Forms, st \in Statuses,
                          file \in BOOLEAN : HandleSave(o, id, f, st, file)
    \/ \E o \in Op : SaveEncoded(o)
    \/ \E o \in Op : ServerMutate(o)
    \/ \E o \in Op : MutationFailed(o)
    \/ \E o \in Op : RefetchRead(o)
    \/ \E o \in Op : RefetchOk(o)
    \/ \E o \in Op : RefetchFailed(o)
    \/ TimerFire

(* ------------------- the sync coordinator taken alone ------------------ *)
\* withSyncStatus(action) for actions that settle in any order, either way
Run == 1..MaxRuns

SyncInit ==
    /\ dashboard = "lazy"
    /\ syncState = IdleSync
    /\ timer = FALSE
    /\ records = <<>>
    /\ load = [pc |-> "none", loading |-> FALSE, error |-> FALSE, fetched |-> TRUE, data |-> <<>>,
             asked |-> FALSE]
    /\ backend = <<>>
    /\ ops = [o \in Run |-> IdleOp]
    /\ lastAuth = <<>>
    /\ trace = <<>>

\* a withSyncStatus call starts
RunStart(o) ==
    /\ ops[o].pc = "idle"
    /\ \A q \in Run : q < o => ops[q].pc # "idle"
    /\ Begin
    /\ trace' = Note("start", SyncStart(syncState))
    /\ ops' = [ops EXCEPT ![o].pc = "sent"]
    /\ UNCHANGED <<dashboard, records, load, backend, lastAuth, serverVars>>
    /\ UNCHANGED <<tab, form>>

\* its action resolves
RunResolve(o) ==
    /\ ops[o].pc = "sent"
    /\ Resolved
    /\ trace' = Note("resolve", SyncResolve(syncState))
    /\ ops' = [ops EXCEPT ![o].pc = "done", ![o].outcome = "resolved"]
    /\ UNCHANGED <<dashboard, records, load, backend, lastAuth, serverVars>>
    /\ UNCHANGED <<tab, form>>

\* its action rejects
RunReject(o, reason) ==
    /\ ops[o].pc = "sent"
    /\ Rejected(reason)
    /\ trace' = Note("reject", SyncReject(syncState, reason))
    /\ ops' = [ops EXCEPT ![o].pc = "done", ![o].outcome = "rejected"]
    /\ UNCHANGED <<dashboard, records, load, backend, lastAuth, serverVars>>
    /\ UNCHANGED <<tab, form>>

SyncNext ==
    \/ \E o \in Run : RunStart(o)
    \/ \E o \in Run : RunResolve(o)
    \/ \E o \in Run, reason \in Reasons : RunReject(o, reason)
    \/ TimerFire

(* ------------- one read of a tabular sheet, server to client ----------- *)
\* getSheet: the header rows of two tabular sheets
SheetHeaders(name) ==
    IF name = "Accounts"
    THEN <<"AccountID", "Location Name", "Account Type", "Contact Person", "Phone", "Email",
           "Address", "Status", "Notes", "File Upload", "Timestamp">>
    ELSE <<"TaskID", "Task Name", "Due Date", "Task Description", "Contact", "Account",
           "Status", "Priority", "Notes", "Completed On">>

\* accountKeys of getAccounts, taskKeys of getTasks
KeyList(name) ==
    IF name = "Accounts"
    THEN <<"accountID", "accountType", "subCategory", "company", "locationName",
           "locationAddress", "expiration", "amountDue", "billingType", "billingAmount",
           "paymentMethod", "licenseNumber", "insuranceCarrier", "insuranceBroker", "notes",
           "status", "timestamp", "fileUpload">>
    ELSE <<"TaskID", "Task Name", "Due Date", "Task Description", "Contact", "Account",
           "Status", "Priority", "Notes", "Completed On">>

\* getHeaderToFieldMap on the Accounts headers (camel case); the generic handlers
\* of the other sheets use the header itself as the field name
FieldOfHeader(name, header) ==
    IF name # "Accounts" THEN header
    ELSE CASE header = "AccountID" -> "accountID"
           [] header = "Location Name" -> "locationName"
           [] header = "Account Type" -> "accountType"
           [] header = "Contact Person" -> "contactPerson"
           [] header = "Phone" -> "phone"
           [] header = "Email" -> "email"
           [] header = "Address" -> "address"
           [] header = "Status" -> "status"
           [] header = "Notes" -> "notes"
           [] header = "File Upload" -> "fileUpload"
           [] OTHER -> "timestamp"

TabularSheets == {"Accounts", "Tasks"}
\* the columns of a sheet that are looked at
Columns(name) == SubSeq(SheetHeaders(name), 1, Width)
Keys(name) == SubSeq(KeyList(name), 1, Width)

\* cells of a row: the id the add handlers give it, then texts and dates
IdCells == {StrCell("id-1"), StrCell("id-2")}
RowsOfSheet == {row \in [1..Width -> IdCells \cup Vals] :
                  row[1] \in IdCells /\ \A c \in 2..Width : row[c] \in Vals}
RECURSIVE Grids(_)
Grids(n) == IF n = 0 THEN {<<>>}
            ELSE Grids(n - 1) \cup {Append(g, row) : g \in Grids(n - 1), row \in RowsOfSheet}

\* row[index] of a JavaScript array: undefined past its end
Undefined == [t |-> "undefined", v |-> ""]
At(row, i) == IF i <= Len(row) THEN row[i] ELSE Undefined
\* obj[keys[0]] as a condition
Truthy(c) == c.t # "undefined" /\ c.v # ""
IndexOf(keys, k) == CHOOSE i \in 1..Len(keys) : keys[i] = k

\* parseRows(rows, keys)
ParseRows(rows, keys) ==
    LET obj(row) == [k \in {keys[i] : i \in 1..Len(keys)} |-> At(row, IndexOf(keys, k))]
        objs == [i \in 1..Len(rows) |-> obj(rows[i])]
    IN SelectSeq(objs, LAMBDA o : Truthy(o[keys[1]]))

TabIdle == [pc |-> "none", name |-> "", grid |-> <<>>, wire |-> <<>>, parsed |-> <<>>]

\* a tabular sheet as the handlers leave it: the header row, then its rows
TabInit ==
    tab \in {[TabIdle EXCEPT !.pc = "sheet", !.name = n, !.grid = <<Columns(n)>> \o g] :
               n \in TabularSheets, g \in Grids(MaxTableRows)}

\* doGet: the fetchFunction reads the sheet, the payload goes out as JSON text
TabGet ==
    /\ tab.pc = "sheet"
    /\ tab' = [tab EXCEPT !.pc = "sent",
                           !.wire = <<JsonStringify(FetchFunction(tab.name, tab.grid))>>]
    /\ UNCHANGED <<serverVars, clientVars, form>>

\* getAccounts / getTasks: handleResponse gives json.data, parseRows builds the records
TabParse ==
    /\ tab.pc = "sent"
    /\ tab' = [tab EXCEPT !.pc = "parsed",
                           !.parsed = ParseRows(JsonParse(tab.wire[1]).rows, Keys(tab.name))]
    /\ UNCHANGED <<serverVars, clientVars, form>>

TabNext ==
    \/ TabGet
    \/ TabParse

(* --------------------------- the specifications ------------------------ *)
\* the script serving requests, no client state moving
Init == ServerInit /\ ClientIdle /\ tab = TabIdle /\ form = EmptyForm

Spec == Init /\ [][ServerNext]_vars

\* one client session against a backend that answers either way
SessionInit == ClientInit /\ ServerInit /\ tab = TabIdle /\ form = EmptyForm

ClientSpec == SessionInit /\ [][ClientNext]_vars

\* status changes in quick succession in a loaded view
QuickInit == RaceInit /\ ServerInit /\ tab = TabIdle /\ form = EmptyForm

RaceSpec == QuickInit /\ [][RaceNext]_vars

\* one session in the Accounts view, whose save form takes a file
AccountsInit == ClientInit /\ ServerInit /\ tab = TabIdle /\ form = EmptyForm

AccountsSpec == AccountsInit /\ [][AccountsNext]_vars

\* withSyncStatus alone
CoordinatorInit == SyncInit /\ ServerInit /\ tab = TabIdle /\ form = EmptyForm

SyncSpec == CoordinatorInit /\ [][SyncNext]_vars

\* withSyncStatus alone, with the browser's guarantees: a timeout that stays set
\* fires, and the promise of a started action settles
FairSyncSpec ==
    /\ SyncSpec
    /\ WF_vars(TimerFire)
    /\ \A o \in Run : WF_vars(RunResolve(o) \/ \E reason \in Reasons : RunReject(o, reason))

\* one read of a tabular sheet
ReadInit == ServerInit /\ ClientIdle /\ TabInit /\ form = EmptyForm

TableSpec == ReadInit /\ [][TabNext]_vars

(* ------------------------- server: the claims -------------------------- *)
DoneReads(name) ==
    {r \in Req : req[r].kind = "read" /\ req[r].key = name
                  /\ req[r].pc = "done" /\ req[r].status = "success"}

\* C1: stampede protection. In a contention window of a key (from the moment the
\* entry is absent with no populate under way, until the next invalidation or
\* expiry) in which no fetchFn or cache.put threw, fetchFn runs at most once, it
\* has run exactly once as soon as a caller has returned, all callers that return
\* send the same payload, and a caller that found the entry under the lock did
\* not fetch.
C1_StampedeProtection ==
    /\ \A n \in SheetNames :
          (win[n].clean /\ ~win[n].failed) =>
             /\ win[n].fetches <= 1
             /\ Cardinality(win[n].results) <= 1
             /\ (win[n].results # {} => win[n].fetches = 1)
    /\ \A r \in Req : req[r].path = "afterLock" => req[r].pc \in {"release", "done"}

\* two callers missed together; one populated, the other found the entry under the lock
C1_Witness ==
    \E n \in SheetNames : \E r1, r2 \in DoneReads(n) :
        /\ win[n].clean /\ ~win[n].failed /\ win[n].fetches = 1
        /\ req[r1].path = "populate" /\ req[r2].path = "afterLock"
        /\ req[r1].body = req[r2].body
        /\ req[r1].dver > 0

\* C2: a read that starts after a successful write has invalidated the key
\* returns data that reflects that write (the sheet as of that write or later).
C2_ReadAfterWriteReflectsIt ==
    \A n \in SheetNames : \A r \in DoneReads(n) : req[r].dver >= req[r].invAtStart

\* C3: clearCache always leaves the key without an entry (also when it had none,
\* so a second call changes nothing), and a getDataWithCache that comes next
\* never takes the fast path; when the entry is still cleared at its double-check
\* it calls fetchFn and returns what fetchFn read after the invalidation.
C3_InvalidateThenRead ==
    /\ \A n \in SheetNames :
          /\ lastOp[n].op = "remove" => CacheGet(cache, n) = <<>>
          /\ ClearCache(cache, n)[n] = <<>>
          /\ ClearCache(ClearCache(cache, n), n) = ClearCache(cache, n)
    /\ \A r \in Req :
          (req[r].kind = "read" /\ req[r].afterClear) =>
             /\ req[r].path # "fast"
             /\ (req[r].stillClear /\ req[r].pc \in {"fetch", "put", "release", "done"}) =>
                    req[r].path = "populate"
             /\ (req[r].stillClear /\ req[r].pc = "done" /\ req[r].status = "success") =>
                    req[r].dver >= req[r].clearAt

\* a read right after a write's clearCache fetched the changed sheet
C3_Witness ==
    \E r \in Req :
        /\ req[r].kind = "read" /\ req[r].afterClear /\ req[r].stillClear
        /\ req[r].pc = "done" /\ req[r].status = "success"
        /\ req[r].path = "populate" /\ req[r].clearAt > 0 /\ req[r].dver >= req[r].clearAt

\* C4: a write request that ends with an error response leaves the cache as it was.
C4_FailedWriteKeepsCache ==
    [][\A r \in Req :
          (req'[r] # req[r] /\ req'[r].kind \in {"post", "getDelete"}
             /\ req'[r].status = "error") => cache' = cache]_vars

(* ------------------------------ client claims -------------------------- *)
\* positions of the trace holding an event
EventsAt(ev) == {i \in 1..Len(trace) : trace[i].ev = ev}

\* N calls were all in flight together and have all settled: the trace is N
\* starts followed by N settlements
AllConcurrentSettled ==
    /\ Len(trace) > 0
    /\ Cardinality(EventsAt("start")) * 2 = Len(trace)
    /\ \A i \in EventsAt("start") : i <= Cardinality(EventsAt("start"))

\* C5: once N concurrently in-flight calls have all settled, the counter is 0 and
\* the status set by the last settlement is 'error' iff some call rejected,
\* 'success' otherwise.
C5_TerminalStatus ==
    AllConcurrentSettled =>
        /\ syncState.pending = 0
        /\ trace[Len(trace)].pending = 0
        /\ trace[Len(trace)].status =
              (IF EventsAt("reject") # {} THEN "error" ELSE "success")

\* C6: the counter is never negative, equals the number of withSyncStatus calls
\* started and not settled, and is 0 exactly when no mutation, its follow-up
\* refetch included, is outstanding.
C6_PendingCountsInFlight ==
    /\ syncState.pending >= 0
    /\ syncState.pending = Cardinality({o \in Op : ops[o].pc \in InFlight})
    /\ syncState.pending = 0 <=> (\A o \in Op : ops[o].pc \in {"idle", "done"})

\* every issued mutation has settled, some rejected and some resolved after a refetch
C6_Witness ==
    /\ syncState.pending = 0
    /\ \A o \in Op : ops[o].pc = "done"
    /\ \E o \in Op : ops[o].outcome = "rejected"
    /\ \E o \in Op : ops[o].outcome = "resolved"

\* C7: an update handler snapshots the displayed collection as it starts, and
\* when its mutation fails the step that runs the catch blocks leaves the
\* displayed collection equal to that snapshot, the speculative value gone.
C7_FailedUpdateRestoresSnapshot ==
    [][\A o \in Op :
          /\ (ops[o].pc = "idle" /\ ops'[o].pc = "sent" /\ ops'[o].kind = "update") =>
                 ops'[o].snapshot = records
          /\ (ops[o].kind = "update" /\ ops[o].pc = "mutErr" /\ ops'[o].pc = "done") =>
                 /\ records' = ops[o].snapshot
                 /\ Lookup(records', ops[o].id) # ops[o].val]_vars

\* an update whose mutation failed has been undone while another handler's
\* mutation was still in flight
C7_Witness ==
    \E o, q \in Op :
        /\ ops[o].pc = "done" /\ ops[o].kind = "update" /\ ops[o].outcome = "rejected"
        /\ ops[o].reason \in Reasons
        /\ ops[o].id \in IdsOf(records)
        /\ Lookup(records, ops[o].id) # ops[o].val
        /\ ops[q].pc \in InFlight /\ ops[q].kind \in Optimistic /\ ops[q].id # ops[o].id

\* C8: when the refetch that follows a successful server delete fails, the step
\* that handles the failure leaves the deleted record absent from the display.
C8_FailedRefetchKeepsDeleted ==
    [][\A o \in Op :
          (ops[o].kind = "delete" /\ ops[o].pc = "refErr" /\ ops'[o].pc = "done") =>
              ops[o].id \notin IdsOf(records')]_vars

\* a mutation of the kind that edits the display ahead of the server is in flight on id
SpeculativeOn(id) ==
    \E o \in Op : ops[o].pc \in InFlight /\ ops[o].kind \in Optimistic /\ ops[o].id = id

\* no two handlers of the session have targeted the same record
DistinctTargets ==
    \A o, q \in Op : (o # q /\ ops[o].pc # "idle" /\ ops[q].pc # "idle") => ops[o].id # ops[q].id

\* C9: every record is displayed as the last snapshot delivered by a fetch has
\* it (present with the same value, or absent), unless a mutation on that record
\* is in flight. A record displayed as the backing store holds it is counted as
\* authoritative as well, so an edit the server confirmed is not speculative;
\* sessions with two mutations of one record are left aside.
C9_DisplayIsSnapshotPlusInFlight ==
    DistinctTargets =>
        \A id \in RecIds :
            \/ SpeculativeOn(id)
            \/ Lookup(records, id) = Lookup(lastAuth, id)
            \/ Lookup(records, id) = Lookup(backend, id)

\* the message the indicator is to show for n outstanding changes
SavingText(n) ==
    IF n = 1 THEN "Saving 1 change..." ELSE "Saving " \o ToString(n) \o " changes..."

\* the counter before the i-th event of the trace
PendingBefore(i) == IF i = 1 THEN 0 ELSE trace[i - 1].pending

\* C10: every invocation adds one to the counter and sets 'syncing' with
\* 'Saving n change(s)...'; every resolution takes one off and sets 'success' at
\* 0, else 'syncing' with the new count; two overlapping calls that both resolve
\* show syncing(1), syncing(2), syncing(1), success.
C10_CountingSequence ==
    /\ \A i \in 1..Len(trace) :
          /\ trace[i].ev = "start" =>
                /\ trace[i].pending = PendingBefore(i) + 1
                /\ trace[i].status = "syncing"
                /\ trace[i].message = SavingText(trace[i].pending)
          /\ trace[i].ev = "resolve" =>
                /\ trace[i].pending = PendingBefore(i) - 1
                /\ trace[i].pending = 0 =>
                      (trace[i].status = "success" /\ trace[i].message = "All changes saved.")
                /\ trace[i].pending > 0 =>
                      (trace[i].status = "syncing"
                         /\ trace[i].message = SavingText(trace[i].pending))
    /\ (Len(trace) >= 4
          /\ [i \in 1..4 |-> trace[i].ev] = <<"start", "start", "resolve", "resolve">>) =>
             [i \in 1..4 |-> <<trace[i].status, trace[i].pending>>] =
                <<<<"syncing", 1>>, <<"syncing", 2>>, <<"syncing", 1>>, <<"success", 0>>>>

\* Scenario D has run: two overlapping calls, both resolved, nothing since
C10_Witness ==
    /\ Len(trace) = 4
    /\ [i \in 1..4 |-> trace[i].ev] = <<"start", "start", "resolve", "resolve">>
    /\ trace[2].message = "Saving 2 changes..."
    /\ syncState = [pending |-> 0, status |-> "success", message |-> "All changes saved."]

\* C11: a create handler never edits the displayed collection itself: each of its
\* steps (issue, the server's answer, a failed create, a failed refetch) leaves the
\* display as it is, and the only step of a create that changes the display is
\* the delivery of the refetch that followed the successful create, which
\* replaces the display with the fetched collection.
C11_CreateIsNotOptimistic ==
    [][\A o \in Op :
          (ops'[o] # ops[o] /\ ops'[o].kind = "create") =>
              \/ records' = records
              \/ ops[o].pc = "refOk" /\ records' = ops[o].data]_vars

\* one create failed and left the display alone, another succeeded and its
\* refetch brought the new record
C11_Witness ==
    \E o, q \in Op :
        /\ ops[o].pc = "done" /\ ops[o].kind = "create" /\ ops[o].outcome = "rejected"
        /\ ops[q].pc = "done" /\ ops[q].kind = "create" /\ ops[q].outcome = "resolved"
        /\ Len(records) = Len(InitialCollection) + 1
        /\ records = lastAuth

\* C12: a fetch of the view's collection is issued, after the first, only when the
\* user has asked for it ('Try Again'); until then the error of a failed load
\* stays displayed; and a mutation that failed is never sent again.
C12_NoAutomaticRetry ==
    [][/\ (load.pc # "sent" /\ load'.pc = "sent") => load.asked
       /\ (load.error /\ ~load.asked) => load'.error
       /\ \A o \in Op : ops[o].pc \in {"mutErr", "done"} => ops'[o].pc # "sent"]_vars

\* C13: the payload of a tabular sheet carries the header row as headers and
\* the rows below it as rows, each as wide as the headers; the records the client
\* builds from the rows are one per row of the sheet, in order, and each record
\* holds, under the field name of every header, the cell of its row under that
\* header (as JSON carries it).
C13_TableRoundTrip ==
    tab.pc = "parsed" =>
        LET hs == Head(tab.grid)
            data == Tail(tab.grid)
            payload == JsonParse(tab.wire[1])
        IN /\ payload.headers = hs
           /\ Len(payload.rows) = Len(data)
           /\ \A i \in 1..Len(data) :
                 Len(payload.rows[i]) = Len(hs) /\ payload.rows[i] = JsonRow(data[i])
           /\ Len(tab.parsed) = Len(data)
           /\ \A i \in 1..Len(data) : \A c \in 1..Len(hs) :
                 LET f == FieldOfHeader(tab.name, hs[c]) IN
                 /\ f \in DOMAIN tab.parsed[i]
                 /\ tab.parsed[i][f] = JsonCell(data[i][c])

\* an execution is between waitLock returning and releaseLock
InSection(rec) == rec.kind = "read" /\ rec.pc \in {"check2", "fetch", "put", "release"}

\* the script lock is held by exactly the executions inside the section
LockDiscipline == \A r \in Req : (lock = r) <=> InSection(req[r])

\* C14: the lock is held by a caller exactly while it is between waitLock and
\* releaseLock; every way out of that section (hit after lock, populate, a throw
\* of fetchFunction or of cache.put) passes through releaseLock and frees the
\* lock; a caller whose waitLock failed leaves the lock with its holder.
C14_LockAlwaysReleased ==
    [][/\ LockDiscipline'
       /\ \A r \in Req :
             /\ (InSection(req[r]) /\ ~InSection(req'[r])) =>
                    (req[r].pc = "release" /\ req'[r].pc = "done" /\ lock = r /\ lock' = 0)
             /\ (InSection(req[r]) /\ req'[r].failed /\ ~req[r].failed) =>
                    req'[r].pc = "release"
             /\ (req[r].pc = "waitLock" /\ req'[r].pc = "done") =>
                    (lock' = lock /\ lock \notin {0, r})]_vars

\* a caller's fetchFunction or cache.put threw, the lock is free again and a
\* caller of the same key has returned a payload in the same window
C14_Witness ==
    \E n \in SheetNames : \E r \in Req :
        /\ req[r].kind = "read" /\ req[r].key = n /\ req[r].pc = "done" /\ req[r].failed
        /\ win[n].clean /\ win[n].failed /\ win[n].results # {}
        /\ \E q \in DoneReads(n) : q # r /\ req[q].path = "populate"
        /\ lock = 0

\* C15: at most one execution is between waitLock and releaseLock; fetchFunction
\* runs and the cache entry is written only in steps of the execution holding
\* the lock; and an entry is written only to a key that has none, so a cold
\* key is populated at most once until its entry is next removed.
C15_PopulateUnderLock ==
    [][/\ Cardinality({r \in Req : InSection(req'[r])}) <= 1
       /\ \A r \in Req :
             (req[r].pc \in {"fetch", "put"} /\ req'[r] # req[r]) => (lock = r /\ lock' = r)
       /\ \A n \in SheetNames :
             (cache'[n] # cache[n] /\ cache'[n] # <<>>) =>
                 /\ lock \in Req /\ lock' = lock
                 /\ req[lock].pc = "put" /\ req[lock].key = n
                 /\ cache[n] = <<>>
       /\ \A n \in SheetNames :
             win'[n].fetches > win[n].fetches =>
                 (lock \in Req /\ req[lock].pc = "fetch" /\ req[lock].key = n)]_vars

\* a caller holds the lock and is about to write the entry while another
\* caller of the same key waits for the lock
C15_Witness ==
    \E r, q \in Req :
        /\ lock = r /\ req[r].pc = "put"
        /\ req[q].pc = "waitLock" /\ req[q].key = req[r].key
        /\ cache[req[r].key] = <<>>

\* C16: when fetchFunction throws, the step leaves the cache as it was, with no
\* entry for the key, and leads to the finally block; the execution then ends
\* with an error response and still no change of the cache; and a caller that
\* finds no entry at its double-check always goes on to call fetchFunction.
C16_FetchThrowLeavesCache ==
    [][\A r \in Req :
          /\ (req[r].pc = "fetch" /\ req'[r].threw = "fetch") =>
                 (req'[r].pc = "release" /\ cache' = cache /\ cache[req[r].key] = <<>>)
          /\ (req[r].threw = "fetch" /\ req'[r] # req[r]) =>
                 /\ req'[r].pc = "done" /\ req'[r].status = "error" /\ req'[r].body = <<>>
                 /\ cache' = cache /\ cache[req[r].key] = <<>>
          /\ (req[r].pc = "check2" /\ req'[r] # req[r] /\ cache[req[r].key] = <<>>) =>
                 req'[r].pc = "fetch"]_vars

\* a read ended with an error after its fetchFunction threw, and a later read of
\* the key called fetchFunction again and populated the entry
C16_Witness ==
    \E n \in SheetNames : \E r \in Req : \E q \in DoneReads(n) :
        /\ req[r].kind = "read" /\ req[r].key = n /\ req[r].pc = "done"
        /\ req[r].threw = "fetch" /\ req[r].status = "error"
        /\ req[q].path = "populate" /\ req[q].threw = "none"
        /\ win[n].clean /\ win[n].fetches = 2
        /\ cache[n] # <<>>

\* a read that ended because its waitLock timed out
TimedOut(rec) ==
    /\ rec.kind = "read" /\ rec.pc = "done" /\ rec.status = "error"
    /\ rec.threw = "none" /\ rec.path = "none"

\* C17: a caller whose waitLock fails ends with an error response in that step:
\* it has not called fetchFunction, the cache and the lock are as they were, the
\* lock is with another execution, and the finished execution does nothing
\* more (the server does not read again on its behalf).
C17_LockTimeoutFails ==
    [][\A r \in Req :
          /\ (req[r].pc = "waitLock" /\ req'[r].pc = "done") =>
                 /\ TimedOut(req'[r]) /\ req'[r].body = <<>>
                 /\ cache' = cache /\ win' = win /\ sheet' = sheet
                 /\ lock' = lock /\ lock \in Req \ {r}
          /\ req[r].pc = "done" => req'[r] = req[r]]_vars

\* a read timed out waiting while the lock holder was still populating
C17_Witness ==
    \E r, q \in Req :
        /\ TimedOut(req[r])
        /\ lock = q /\ req[q].key = req[r].key /\ req[q].pc = "fetch"
        /\ cache[req[r].key] = <<>>

\* C18: an execution that starts a read of a key whose cache entry is present
\* answers in that same step with the parsed entry: it never waits for the lock,
\* takes or releases it, calls fetchFunction or touches cache or sheet,
\* whoever holds the lock at that moment; and only such a read answers at once.
C18_FastPath ==
    [][\A r \in Req :
          (req[r].pc = "idle" /\ req'[r].kind = "read") =>
              LET name == req'[r].key IN
              IF cache[name] # <<>>
              THEN /\ req'[r].pc = "done" /\ req'[r].path = "fast"
                   /\ req'[r].status = "success"
                   /\ req'[r].body = <<JsonStringify(JsonParse(cache[name][1].text))>>
                   /\ lock' = lock /\ cache' = cache /\ sheet' = sheet
                   /\ win'[name].fetches = win[name].fetches
              ELSE req'[r].pc = "waitLock"]_vars

\* a read was answered from the cache while an earlier execution, still in
\* fetchFunction for another key, holds the lock
C18_Witness ==
    \E r, q \in Req :
        /\ q < r /\ lock = q /\ req[q].pc = "fetch" /\ req[q].key # req[r].key
        /\ req[r].pc = "done" /\ req[r].path = "fast" /\ req[r].body # <<>>

\* the reason with which the wrapped action of handler o is about to reject
Rejecting(o) ==
    IF ops[o].pc = "mutErr" THEN <<ops[o].reason>>
    ELSE IF ops[o].pc = "refErr" /\ dashboard = "lazy" THEN <<FetchError>>
    ELSE <<>>

\* C19: the step that handles a rejected action takes exactly one off the
\* counter, shows status 'error' with the reason's message, or 'Update failed.'
\* for a reason that is no Error, and hands the same reason to the handler, whose
\* catch puts the collection back to the handler's snapshot where the handler
\* had applied an edit; a rejecting action is never handled in another way.
C19_RejectDecrementsAndRethrows ==
    [][\A o \in Op :
          (Rejecting(o) # <<>> /\ ops'[o] # ops[o]) =>
              LET reason == Rejecting(o)[1] IN
              /\ syncState'.pending = syncState.pending - 1
              /\ syncState'.status = "error"
              /\ syncState'.message =
                     (IF reason.isError THEN reason.message ELSE "Update failed.")
              /\ ops'[o].pc = "done" /\ ops'[o].outcome = "rejected"
              /\ ops'[o].reason = reason
              /\ ops[o].kind \in Optimistic => records' = ops[o].snapshot
              /\ ops[o].kind \notin Optimistic => records' = records]_vars

\* an update was rejected with a reason that is no Error: the indicator shows
\* 'Update failed.' and the record no longer has the speculative value
C19_Witness ==
    \E o \in Op :
        /\ ops[o].pc = "done" /\ ops[o].kind = "update" /\ ops[o].outcome = "rejected"
        /\ ~ops[o].reason.isError
        /\ syncState.status = "error" /\ syncState.message = "Update failed."
        /\ ops[o].id \in IdsOf(records) /\ Lookup(records, ops[o].id) # ops[o].val

Terminal == syncState.status \in {"success", "error"}

\* the number of withSyncStatus calls started so far
Started == Cardinality(EventsAt("start"))

\* C20: the timeout is set exactly while the status is 'success' or 'error'; the
\* status is set to 'idle' only by that timeout, so never while it is 'syncing';
\* a call that starts clears the timeout and shows 'syncing'; a terminal status
\* does not last forever; and if no further call starts, the status becomes
\* 'idle'.
C20_StatusAutoReverts ==
    /\ [](timer <=> Terminal)
    /\ [][(syncState'.status = "idle" /\ syncState.status # "idle") =>
             (Terminal /\ timer /\ ~timer' /\ syncState'.pending = syncState.pending)]_vars
    /\ [][syncState'.pending > syncState.pending =>
             (syncState'.status = "syncing" /\ ~timer')]_vars
    /\ Terminal ~> ~Terminal
    /\ \A n \in 0..MaxRuns :
          (Terminal /\ Started = n) ~> (syncState.status = "idle" \/ Started > n)

\* a call started while an earlier outcome was still on display, it failed in
\* its turn, and the status has gone back to 'idle' since
C20_Witness ==
    /\ syncState = IdleSync /\ ~timer
    /\ Len(trace) >= 4
    /\ trace[Len(trace)].status = "error"
    /\ \E i \in 2..Len(trace) :
          trace[i].ev = "start" /\ trace[i - 1].status \in {"success", "error"}

\* handler a was issued before update b on the same record, b is still in
\* flight, b's value is not the one the last fetched collection holds, and no
\* other handler asked for b's value on that record
RaceOn(a, b) ==
    /\ a < b /\ ops[a].kind \in Optimistic /\ ops[b].kind = "update"
    /\ ops[a].id = ops[b].id /\ ops[b].pc \in InFlight
    /\ Lookup(lastAuth, ops[b].id) # ops[b].val
    /\ \A q \in Op \ {b} : ops[q].id = ops[b].id => ops[q].val # ops[b].val

\* C21: when edit A fails while the later edit B of the same record is in
\* flight, A's revert puts A's snapshot on display, in which the record is as
\* it was before B's change (B's value is gone unless the snapshot happens to
\* hold the same value); and after that B's value comes back on display only
\* with the collection a fetch delivers.
C21_SameRecordRace ==
    [][\A a, b \in Op :
          (RaceOn(a, b) /\ RaceOn(a, b)' /\ ops'[b] = ops[b]) =>
              /\ (Rejecting(a) # <<>> /\ ops'[a] # ops[a]) =>
                     /\ records' = ops[a].snapshot
                     /\ Lookup(ops[a].snapshot, ops[b].id) # ops[b].val =>
                            Lookup(records', ops[b].id) # ops[b].val
              /\ (/\ ops[a].pc = "done" /\ ops[a].outcome = "rejected"
                  /\ Lookup(records, ops[b].id) # ops[b].val
                  /\ Lookup(records', ops[b].id) = ops[b].val) =>
                     \E o \in Op : ops[o].pc = "refOk" /\ ops'[o].pc = "done"]_vars

\* every handler of the session has been issued and has settled with its
\* mutation applied and its refetch delivered
AllSettledOk ==
    /\ \A o \in Op : ops[o].pc = "done" /\ ops[o].outcome = "resolved"
    /\ ~load.error

\* C22: once every mutation issued on the collection has settled successfully,
\* each followed by its refetch, the displayed collection is the collection the
\* backing store holds, in whatever order the refetch responses arrived.
C22_ReconciledAfterSuccess ==
    AllSettledOk => records = backend

\* C23: in the step in which an update or delete handler calls withSyncStatus,
\* the display holds the speculative change (the record with the new value, or
\* the record removed) and differs from the handler's snapshot in the targeted
\* record only, the counter takes the call, and the backing store has not
\* received the mutation yet; the store changes only for a call that
\* withSyncStatus has taken.
C23_OptimisticOrdering ==
    [][/\ \A o \in Op :
             (ops[o].pc # "sent" /\ ops'[o].pc = "sent" /\ ops'[o].kind \in Optimistic) =>
                 /\ \A id \in RecIds \ {ops'[o].id} :
                        Lookup(records', id) = Lookup(ops'[o].snapshot, id)
                 /\ ops'[o].kind = "update" => Lookup(records', ops'[o].id) = ops'[o].val
                 /\ ops'[o].kind = "delete" =>
                        (ops'[o].id \in IdsOf(ops'[o].snapshot) /\ ops'[o].id \notin IdsOf(records'))
                 /\ syncState'.pending = syncState.pending + 1
                 /\ syncState'.status = "syncing"
                 /\ backend' = backend
       /\ backend' # backend => \E o \in Op : ops[o].pc = "sent" /\ ops'[o].pc = "mutOk"]_vars

\* the form as filled breaks a rule of the save form: no company name, or a
\* negative amount due
Invalid(fm) == fm.company \in {<<>>, <<" ">>} \/ fm.amountDue < 0

\* C24: a save pressed on a form that fails validation sets field messages and
\* nothing else: the counter, the status, its timeout, the displayed collection,
\* the handler invocations, the backing store and the server stay as they were.
C24_InvalidFormStopsSave ==
    [][(form' # form /\ Invalid(form')) =>
          /\ form'.errors # {}
          /\ UNCHANGED <<syncState, timer, records, ops, backend, load, serverVars>>]_vars

\* field messages are shown after a refused save while a mutation issued before
\* is still in flight
C24_Witness ==
    /\ form.errors = {"company", "amountDue"}
    /\ syncState.pending = 1
    /\ \E o \in Op : ops[o].pc = "sent" /\ ops[o].kind = "update"

\* the update and delete entry points, and the requests they started
UpdateOrDelete == {"update", "updateAccount", "deleteAccount", "delete"}
Targets(r) == req[r].act \in UpdateOrDelete

\* C25: an update or delete whose id is in no row of the sheet when the handler
\* looks it up goes no further than the lookup: it gets to its write (and to the
\* upload of its files) only with an id the sheet holds, at that id's row;
\* otherwise its response is an error, it has written nothing, and the rows of
\* every sheet are as they were, also through the rest of the request.
C25_MissingIdChangesNothing ==
    [][\A r \in Req :
          /\ (req[r].pc = "idle" /\ Targets(r)') =>
                IF req'[r].pc = "write"
                THEN /\ req'[r].id \in UsedIds(sheet[req'[r].key])
                     /\ sheet[req'[r].key][req'[r].row][1] = req'[r].id
                ELSE /\ req'[r].pc \in {"clear", "done"}
                     /\ req'[r].status = "error"
                     /\ ~req'[r].wrote
                     /\ sheet' = sheet
          /\ (Targets(r) /\ req[r].pc = "clear" /\ req[r].status = "error"
                /\ req'[r] # req[r]) =>
                /\ req'[r].pc = "done"
                /\ req'[r].status = "error"
                /\ ~req'[r].wrote
                /\ sheet' = sheet]_vars

\* an update and a legacy delete of ids the sheets never held were answered with
\* an error while the sheets still hold their first record
C25_Witness ==
    /\ \E r \in Req : /\ req[r].act = "update" /\ req[r].pc = "done"
                       /\ req[r].status = "error" /\ ~req[r].wrote
    /\ \E r \in Req : /\ req[r].act = "delete" /\ req[r].pc = "done"
                       /\ req[r].status = "error" /\ ~req[r].wrote
    /\ \A n \in SheetNames : sheet[n] = InitSheet(n) /\ ver[n] = 0

\* handlers a and b were the only ones of the session: two status changes of two
\* different records, a issued first, whose mutations both failed and whose
\* catches have both run
BothFailed(a, b) ==
    /\ a < b
    /\ \A o \in {a, b} : /\ ops[o].pc = "done" /\ ops[o].kind = "update"
                          /\ ops[o].outcome = "rejected" /\ ops[o].reason \in Reasons
    /\ ops[a].id # ops[b].id
    /\ \A q \in Op \ {a, b} : ops[q].pc = "idle"

\* C26: after two updates of two different records have both failed and both
\* catches have run, the view displays the collection as it was before the first
\* of them started, which is the collection the last fetch delivered (no fetch
\* delivers between a failing mutation's start and its catch, and the backing
\* store never took either change).
C26_BothRevertsRestoreOriginal ==
    \A a, b \in Op : BothFailed(a, b) => (records = lastAuth /\ lastAuth = backend)

\* C27: while the pending counter is above 0 the indicator is not idle: it shows
\* 'syncing', or an 'error' not yet taken down.
C27_NeverIdleWhilePending ==
    syncState.pending > 0 => syncState.status \in {"syncing", "error"}

\* request r returns its response in this step
Returns(r) == req[r].pc # "done" /\ req'[r].pc = "done"

\* C28: a write request that changed its sheet (appended, rewrote or deleted a
\* row) has removed the sheet's cache entry when its response is returned: the
\* entry is gone in the state the response leaves behind, whatever the status of
\* the response.
C28_ChangedSheetIsInvalidated ==
    [][\A r \in Req :
          (Returns(r) /\ req[r].wrote) => CacheGet(cache', req[r].key) = <<>>]_vars

\* request r is a write request (doPost, or the legacy delete) taking a step
WriteStep(r) == req'[r] # req[r] /\ req'[r].kind \in {"post", "getDelete"}

\* C29: a step of a write request changes rows and the cache entry of no sheet
\* but its own, which is the Accounts sheet for the account actions and the
\* Customer Service Hub for create, update and the legacy delete; a request with
\* an unknown action or an invalid format is answered with an error and changes
\* no sheet and no cache entry.
C29_OnlyOwnKeyInvalidated ==
    [][\A r \in Req : WriteStep(r) =>
          IF req'[r].act = "bad"
          THEN /\ req'[r].status = "error"
               /\ UNCHANGED <<sheet, ver, cache, lastOp, invalidated>>
          ELSE /\ req'[r].key = IF req'[r].act \in {"create", "update", "delete"}
                                THEN CSHub ELSE Accounts
               /\ \A n \in SheetNames \ {req'[r].key} :
                      /\ CacheGet(cache', n) = CacheGet(cache, n)
                      /\ sheet'[n] = sheet[n]
                      /\ lastOp'[n] = lastOp[n]]_vars

\* an added account has been answered with success and the Accounts key was
\* cleared, a malformed request has been answered, and the entry cached for the
\* Customer Service Hub is still there
C29_Witness ==
    /\ \E r \in Req : /\ req[r].pc = "done" /\ req[r].act = "addAccount"
                       /\ req[r].status = "success" /\ req[r].wrote
    /\ \E r \in Req : req[r].pc = "done" /\ req[r].act = "bad"
    /\ lastOp[Accounts].op = "remove"
    /\ CacheGet(cache, Accounts) = <<>>
    /\ CacheGet(cache, CSHub) # <<>>

====
